---------------------------- MODULE Spec2Model ----------------------------
(***************************************************************************)
(* The client session subsystem of the marketplace application: the        *)
(* Session Store (localStorage), the Session Gate (AuthProvider state and   *)
(* ProtectedRoute) and the calls the views make, for each of the client     *)
(* variants the repository holds:                                           *)
(*   V1  src/server/index.js 75-695    AuthContext {token, login, logout}   *)
(*   V2  src/server/index.js 921-1433  AuthContext {token, setToken, logout}*)
(*   V3  src/unnamed/part_000 92-610   services/api.ts + isAuthenticated,   *)
(*                                     App of lines 103-122                 *)
(*   V4  the same AuthContext and api.ts with the App of lines 627-647      *)
(* One action is one run-to-completion callback (an event handler, the      *)
(* continuation of an awaited response, the flush of the effects of a       *)
(* render) followed by the render React commits after it: the roots are    *)
(* created with ReactDOM.createRoot (index.js 689, part_000 133), so the    *)
(* state updates of a callback are batched and committed when it returns;   *)
(* under the legacy ReactDOM.render of part_000 763 the part_000 handlers   *)
(* write localStorage before they set state, and logout runs in a click     *)
(* handler, which React batches as well.                                    *)
(***************************************************************************)
EXTENDS Integers, FiniteSets, Sequences, Bags, TLC

(* ------------------------------ bounds --------------------------------- *)
\* requests that may be awaiting their response at the same time
MaxInFlight == 2

\* the tokens the credential issuer may return
Tokens == {"t1", "t2"}

(* ------------------------- JavaScript values --------------------------- *)
JsNull == "<null>"
JsUndefined == "<undefined>"

\* String(v), as a template literal and Storage.setItem convert their argument
Str(v) == IF v = JsNull THEN "null" ELSE IF v = JsUndefined THEN "undefined" ELSE v

\* ToBoolean(v) for the values a token variable takes
Truthy(v) == v # JsNull /\ v # JsUndefined /\ v # ""

\* what data.token evaluates to on a 2xx response: a token, or undefined when
\* the body carries none
TokenFields == Tokens \cup {JsUndefined}

(* ------------------------------ variants ------------------------------- *)
Variants == {"V1", "V2", "V3", "V4"}

Paths == {"/", "/login", "/register", "/dashboard", "/transactions"}

StorageKeys == {"authToken", "token"}

VARIABLES
  variant,         \* which client is running (fixed for a behaviour)
  localStorage,    \* the persistence layer: key -> string, JsNull when absent
  token,           \* useState token of AuthProvider (V1, V2)
  isAuthenticated, \* useState isAuthenticated of AuthProvider (V3, V4)
  path,            \* the router's location
  pendingEffects,  \* passive effects of the last render, not yet flushed
  reqs,            \* the bag of requests awaiting their response
  itemsLoaded,     \* the mounted Dashboard/ItemList holds at least one item
  lastEvent,       \* history: the callback that ran last and its input
  lastCall         \* history: the protected call issued last

\* the server process
VARIABLES
  users,           \* the User Store: the set of user records
  now,             \* the server's clock
  issued,          \* the token the Credential Issuer returned last, kept by the caller
  sreqs,           \* the bag of requests inside their middleware chain
  files,           \* public/assets: the names of the files multer wrote
  okCount,         \* history: successful registrations per identifier
  lastStep         \* history: the middleware that ran in the last step

cvars == <<variant, localStorage, token, isAuthenticated, path, pendingEffects,
           reqs, itemsLoaded, lastEvent, lastCall>>

svars == <<users, now, issued, sreqs, files, okCount, lastStep>>

vars == <<cvars, svars>>

\* the client keeps the token in React state (V1, V2) or only a flag (V3, V4)
UsesTokenState(v) == v \in {"V1", "V2"}

\* the localStorage key each variant uses
TokenKey(v) == IF v = "V1" THEN "authToken" ELSE "token"

(* ---------------------------- Session Store ---------------------------- *)
getItem(ls, k) == ls[k]

\* mutant: the write to the persistence layer is lost
setItem_Lost(ls, k, v) == ls

\* mutant: a second write of the value a key already holds removes it
setItem_Flip(ls, k, v) == [ls EXCEPT ![k] = IF @ = Str(v) THEN JsNull ELSE Str(v)]

\* mutant: the first value written under a key stays
setItem_KeepFirst(ls, k, v) == [ls EXCEPT ![k] = IF @ # JsNull THEN @ ELSE Str(v)]

setItem(ls, k, v) == [ls EXCEPT ![k] = Str(v)]

\* mutant: the key is left in the persistence layer
removeItem_Kept(ls, k) == ls

removeItem(ls, k) == [ls EXCEPT ![k] = JsNull]

(* ----------------------------- Session Gate ---------------------------- *)
\* what the context exposes as "logged in", for given React state
GateOf(v, tok, isAuth) == IF UsesTokenState(v) THEN Truthy(tok) ELSE isAuth

Authenticated == GateOf(variant, token, isAuthenticated)

\* mutant: the token state starts empty whatever the store holds
InitialToken_Empty(v, ls) == JsNull

\* useState initialiser of AuthProvider
InitialToken(v, ls) == IF UsesTokenState(v) THEN getItem(ls, TokenKey(v)) ELSE JsNull

\* the mount effect of the part_000 AuthProvider: setIsAuthenticated(!!token)
AuthInitEffect(ls) == Truthy(getItem(ls, "token"))

(* -------------------------------- routes ------------------------------- *)
\* where <Navigate> leaves the location for a requested path
Resolve(v, p, auth) ==
  CASE v = "V1" -> IF p = "/dashboard" /\ ~auth THEN "/" ELSE p
    [] v = "V2" -> IF p \in {"/dashboard", "/transactions"}
                     THEN (IF auth THEN p ELSE "/login")
                     ELSE IF p \in {"/login", "/register"} THEN p ELSE "/login"
    [] OTHER    -> p

\* the view the matched route renders at a resolved location
ViewAt(v, p, auth) ==
  CASE v = "V1" -> (CASE p = "/" -> "Login"
                      [] p = "/register" -> "Register"
                      [] p = "/dashboard" -> "Dashboard"
                      [] OTHER -> "Blank")
    [] v = "V2" -> (CASE p = "/login" -> "Login"
                      [] p = "/register" -> "Register"
                      [] p = "/dashboard" -> "Dashboard"
                      [] p = "/transactions" -> "TransactionList"
                      [] OTHER -> "Blank")
    [] v = "V3" -> (CASE p \in {"/", "/dashboard"} -> "Dashboard"
                      [] p = "/login" -> "Login"
                      [] p = "/register" -> "Register"
                      [] OTHER -> "Blank")
    [] OTHER    -> (CASE p = "/" -> "Login"
                      [] p = "/register" -> "Register"
                      [] p = "/dashboard" -> (IF auth THEN "Dashboard" ELSE "Login")
                      [] OTHER -> "Blank")

View == ViewAt(variant, path, Authenticated)

(* ------------------------------- requests ------------------------------ *)
NoAuthHeader == [scheme |-> "none", cred |-> ""]

Bearer(v) == [scheme |-> "Bearer", cred |-> Str(v)]

Request(k, h) == [kind |-> k, hdr |-> h, live |-> TRUE]

HasRoom(rs) == BagCardinality(rs) < MaxInFlight

\* hand a request to the transport; beyond MaxInFlight the response is never
\* delivered (no timeout is specified for a call)
Send(rs, r) == IF HasRoom(rs) THEN rs (+) SetToBag({r}) ELSE rs

\* the request whose response is being handled leaves the bag
Done(rs, r) == rs (-) SetToBag({r})

\* the callbacks of an unmounted view still run, on a dead component
Orphan(rs) ==
  LET dead(r) == [r EXCEPT !.live = FALSE]
      alive(r) == [r EXCEPT !.live = TRUE]
      n(r) == IF r \in DOMAIN rs THEN rs[r] ELSE 0
  IN [d \in {dead(r) : r \in DOMAIN rs} |-> n(d) + n(alive(d))]

ProtectedKinds == {"fetchItems", "fetchTransactions", "addItem", "deleteItem"}

\* the Authorization header each protected call is built with
fetchItemsHeader(v, tok) == IF UsesTokenState(v) THEN Bearer(tok) ELSE NoAuthHeader

fetchTransactionsHeader(v, tok) == IF UsesTokenState(v) THEN Bearer(tok) ELSE NoAuthHeader

addItemHeader(v, tok, ls) ==
  CASE v = "V1" -> Bearer(tok)
    [] v = "V2" -> Bearer(getItem(ls, "token"))
    [] OTHER    -> NoAuthHeader

handleDeleteHeader(ls) == Bearer(getItem(ls, "token"))

NoCall == [kind |-> "none", hdr |-> NoAuthHeader, store |-> JsNull, gate |-> FALSE]

\* the Session Store's get(): the value under the variant's key
StoreValue == getItem(localStorage, TokenKey(variant))


(* ------------------------ AuthProvider operations ---------------------- *)
\* The client state a handler reads and writes:
\*   [token, isAuth, ls] = React state token / isAuthenticated, localStorage.
ClientState == [token |-> token, isAuth |-> isAuthenticated, ls |-> localStorage]

\* mutant: the token state keeps the value an earlier login set
login_V1_Stale(st, t) ==
  [st EXCEPT !.token = IF Truthy(st.token) THEN st.token ELSE t,
             !.ls = setItem(st.ls, "authToken", t)]

\* V1 AuthProvider.login(token): setToken(token); localStorage.setItem(...)
login_V1(st, t) ==
  [st EXCEPT !.token = t, !.ls = setItem(st.ls, "authToken", t)]

\* V1 AuthProvider.logout: setToken(null); localStorage.removeItem(...)
logout_V1(st) ==
  [st EXCEPT !.token = JsNull, !.ls = removeItem(st.ls, "authToken")]

\* mutant: the token is set in React state and not persisted
setAndPersistToken_StateOnly(st, t) == [st EXCEPT !.token = t]

\* V2 AuthProvider.setAndPersistToken(token)
setAndPersistToken(st, t) ==
  [st EXCEPT !.token = t,
             !.ls = IF Truthy(t) THEN setItem(st.ls, "token", t)
                                 ELSE removeItem(st.ls, "token")]

\* V2 AuthProvider.logout
logout_V2(st) == setAndPersistToken(st, JsNull)

\* services/api.ts login, after its axios.post resolved: stores response.data.token
apiLogin(ls, t) == setItem(ls, "token", t)

\* services/api.ts register, after its axios.post resolved
apiRegister(ls, t) == setItem(ls, "token", t)

\* services/api.ts logout
apiLogout(ls) == removeItem(ls, "token")

\* V3/V4 AuthProvider.login, once apiLogin resolved
login_V3(st, t) == [st EXCEPT !.ls = apiLogin(st.ls, t), !.isAuth = TRUE]

\* mutant: register stores the token and leaves the flag as it was
register_V3_NoFlag(st, t) == [st EXCEPT !.ls = apiRegister(st.ls, t)]

\* V3/V4 AuthProvider.register, once apiRegister resolved
register_V3(st, t) == [st EXCEPT !.ls = apiRegister(st.ls, t), !.isAuth = TRUE]

\* V3/V4 AuthProvider.logout
logout_V3(st) == [st EXCEPT !.ls = apiLogout(st.ls), !.isAuth = FALSE]

logout(v, st) ==
  CASE v = "V1" -> logout_V1(st)
    [] v = "V2" -> logout_V2(st)
    [] OTHER    -> logout_V3(st)

\* where the logout button is rendered: Navbar (V1, V3, V4) or Dashboard (V1, V2)
LogoutShown(v, tok, isAuth, view) ==
  CASE v = "V1" -> Truthy(tok)
    [] v = "V2" -> view = "Dashboard"
    [] OTHER    -> isAuth

(* --------------------- Login / Register handleSubmit ------------------- *)
NoNav == ""

\* Login.handleSubmit after a 2xx response whose body has token field t:
\* the new client state and the location it navigates to
LoginOk(v, st, t) ==
  CASE v = "V1" -> [st |-> login_V1(st, t), nav |-> "/dashboard"]
    [] v = "V2" -> [st |-> setAndPersistToken(st, t), nav |-> NoNav]
    [] OTHER    -> [st |-> login_V3(st, t), nav |-> "/dashboard"]

\* Register.handleSubmit after a 2xx response whose body has token field t
RegisterOk(v, st, t) ==
  CASE v = "V1" -> [st |-> st, nav |-> "/"]
    [] v = "V2" -> [st |-> st, nav |-> NoNav]
    [] OTHER    -> [st |-> register_V3(st, t), nav |-> "/dashboard"]

(* ----------------- the Session Store as the client uses it ------------- *)
\* set(t): what the client does with the token t of a credential response
SessionSet(v, st, t) == LoginOk(v, st, t).st

\* get(): the value under the client's key, JsNull when absent
SessionGet(v, st) == getItem(st.ls, TokenKey(v))

\* clear(): logout
SessionClear(v, st) == logout(v, st)

(* =============================== the server ============================ *)
(* src/server/index.js 1-69 (repeated at 849-917 and in part_000 1-69)     *)
(* mounts the routes; the middleware and controllers it imports            *)
(* (./middleware/auth.js, ./controllers/auth.js, ./routes/*.js) are not     *)
(* among the source files, so verifyToken, register, login and the routers *)
(* are written from the specification's sections 4.1, 4.2 and 6.           *)
(* next() calls the following middleware synchronously, so a request runs  *)
(* its chain in one step up to upload.single, which waits for the body of  *)
(* the request; the chains of two requests interleave at that point.        *)
(***************************************************************************)
\* the last instant of the server's clock
MaxTime == 2

\* requests that may be inside their chains at the same time
MaxServerReqs == 2

\* the policy constant: expiry = issued-at + SessionLifetime
SessionLifetime == 2

Emails == {"alice", "bob"}

Passwords == {"pw1", "pw2"}

\* what each caller registers with: its password (a login may try either) and
\* its profile picture, if it sends one
Registrations == {<<"alice", "pw1", "avatar.png">>, <<"bob", "pw2", "">>}

ServerSecret == "JWT_SECRET"

ForeignSecret == "another secret"

\* a token, by what verification reads of it: subject, expiry, signing key
Sign(sub, exp, key) == [sub |-> sub, exp |-> exp, key |-> key]

\* a credential that is not a token at all
NoToken == Sign(0, 0, "")

Authorization(scheme, tok) == [scheme |-> scheme, cred |-> tok]

NoAuthorization == Authorization("none", NoToken)

\* a header the guard cannot extract a bearer token from
BadHeader(hdr) == hdr.scheme # "Bearer" \/ hdr.cred = NoToken

Unauthenticated(why) == [ok |-> FALSE, sub |-> 0, why |-> why]

\* mutant: a token is still accepted at its expiry instant
authorize_Late(hdr, t) ==
  IF BadHeader(hdr) THEN Unauthenticated("header")
  ELSE IF hdr.cred.key # ServerSecret THEN Unauthenticated("signature")
  ELSE IF t > hdr.cred.exp THEN Unauthenticated("expired")
  ELSE [ok |-> TRUE, sub |-> hdr.cred.sub, why |-> ""]

\* mutant: the expiry is read before the signature is verified
authorize_PayloadFirst(hdr, t) ==
  IF BadHeader(hdr) THEN Unauthenticated("header")
  ELSE IF t >= hdr.cred.exp THEN Unauthenticated("expired")
  ELSE IF hdr.cred.key # ServerSecret THEN Unauthenticated("signature")
  ELSE [ok |-> TRUE, sub |-> hdr.cred.sub, why |-> ""]

\* Access Guard authorize(rawHeaderValue) at time t: extract the bearer token,
\* verify its signature, compare the time with its expiry, yield the subject
authorize(hdr, t) ==
  IF BadHeader(hdr) THEN Unauthenticated("header")
  ELSE IF hdr.cred.key # ServerSecret THEN Unauthenticated("signature")
  ELSE IF t >= hdr.cred.exp THEN Unauthenticated("expired")
  ELSE [ok |-> TRUE, sub |-> hdr.cred.sub, why |-> ""]

\* Credential Issuer: the token for user id issued at time t
IssueToken(id, t) == Sign(id, t + SessionLifetime, ServerSecret)

(* ------------------------------ User Store ----------------------------- *)
\* the salted one-way hash, kept as the pair it was computed from
Hash(pw, salt) == <<pw, salt>>

\* the record register builds: a fresh identifier, a fresh salt, the hash
NewUser(us, e, pw) ==
  [id |-> Cardinality(us) + 1, email |-> e, salt |-> Cardinality(us) + 1,
   hash |-> Hash(pw, Cardinality(us) + 1)]

findByIdentifier(us, e) == {u \in us : u.email = e}

\* mutant: the insert does not look for the identifier first
insertIfAbsent_Blind(us, u) == [inserted |-> TRUE, store |-> us \cup {u}]

\* mutant: the insert replaces the record that holds the identifier
insertIfAbsent_Replace(us, u) ==
  [inserted |-> TRUE, store |-> (us \ findByIdentifier(us, u.email)) \cup {u}]

\* insertIfAbsent(user): one atomic step of the store
insertIfAbsent(us, u) ==
  IF findByIdentifier(us, u.email) # {}
    THEN [inserted |-> FALSE, store |-> us]
    ELSE [inserted |-> TRUE, store |-> us \cup {u}]

(* ------------------------------ responses ------------------------------ *)
InvalidCredentialMsg == "Invalid credentials"

DuplicateIdentifierMsg == "Identifier already registered"

UnauthenticatedMsg == "Access denied"

ServerErrorMsg == "Internal server error"

Reply(status, msg, cause, tok) ==
  [status |-> status, msg |-> msg, cause |-> cause, tok |-> tok]

\* mutant: an unknown identifier is reported as such
login_Leaky(us, e, pw, t, fault) ==
  IF fault THEN Reply(500, ServerErrorMsg, "fault", NoToken)
  ELSE IF findByIdentifier(us, e) = {}
    THEN Reply(404, "User does not exist", "noSuchUser", NoToken)
  ELSE LET u == CHOOSE w \in findByIdentifier(us, e) : TRUE
       IN IF Hash(pw, u.salt) # u.hash
            THEN Reply(401, InvalidCredentialMsg, "wrongPassword", NoToken)
            ELSE Reply(200, "", "", IssueToken(u.id, t))

\* mutant: the token names no subject
login_Anonymous(us, e, pw, t, fault) ==
  IF fault THEN Reply(500, ServerErrorMsg, "fault", NoToken)
  ELSE IF findByIdentifier(us, e) = {}
    THEN Reply(401, InvalidCredentialMsg, "noSuchUser", NoToken)
  ELSE LET u == CHOOSE w \in findByIdentifier(us, e) : TRUE
       IN IF Hash(pw, u.salt) # u.hash
            THEN Reply(401, InvalidCredentialMsg, "wrongPassword", NoToken)
            ELSE Reply(200, "", "", IssueToken(0, t))

\* Credential Issuer login(identifier, password) at time t; fault: the store
\* or the signing key is unavailable
login(us, e, pw, t, fault) ==
  IF fault THEN Reply(500, ServerErrorMsg, "fault", NoToken)
  ELSE IF findByIdentifier(us, e) = {}
    THEN Reply(401, InvalidCredentialMsg, "noSuchUser", NoToken)
  ELSE LET u == CHOOSE w \in findByIdentifier(us, e) : TRUE
       IN IF Hash(pw, u.salt) # u.hash
            THEN Reply(401, InvalidCredentialMsg, "wrongPassword", NoToken)
            ELSE Reply(200, "", "", IssueToken(u.id, t))

\* Credential Issuer register(identifier, password): the reply and the store
register(us, e, pw, t, fault) ==
  IF fault THEN [reply |-> Reply(500, ServerErrorMsg, "fault", NoToken), store |-> us]
  ELSE LET u == NewUser(us, e, pw)
           r == insertIfAbsent(us, u)
       IN IF r.inserted
            THEN [reply |-> Reply(200, "", "", IssueToken(u.id, t)), store |-> r.store]
            ELSE [reply |-> Reply(400, DuplicateIdentifierMsg, "duplicate", NoToken),
                  store |-> r.store]

(* -------------------------------- routes ------------------------------- *)
\* app.use("/assets", express.static(...))
assetsRoute == <<"static">>

\* app.post("/auth/register", upload.single("picture"), register)
registerRoute == <<"upload", "register">>

\* mutant: the file is taken in before the guard runs
createPostRoute_UploadFirst == <<"upload", "verifyToken", "createPost">>

\* mutant: post creation without the guard
createPostRoute_Open == <<"upload", "createPost">>

\* mutant: the guard runs after the handler
createPostRoute_GuardLast == <<"upload", "createPost", "verifyToken">>

\* app.post("/posts", verifyToken, upload.single("picture"), createPost)
createPostRoute == <<"verifyToken", "upload", "createPost">>

\* app.use("/auth", authRoutes): POST /auth/login
authRoutes == <<"login">>

\* app.use("/users", userRoutes)
userRoutes == <<"verifyToken", "getUser">>

\* app.use("/posts", postRoutes)
postRoutes == <<"verifyToken", "getFeedPosts">>

Routes == {"GET /assets", "POST /auth/register", "POST /auth/login",
           "POST /posts", "GET /users", "GET /posts"}

\* the chain Express runs for a request: the app.post routes of lines 47-48
\* are registered before the routers of lines 51-53
Pipeline(route) ==
  CASE route = "GET /assets"         -> assetsRoute
    [] route = "POST /auth/register" -> registerRoute
    [] route = "POST /posts"         -> createPostRoute
    [] route = "POST /auth/login"    -> authRoutes
    [] route = "GET /users"          -> userRoutes
    [] route = "GET /posts"          -> postRoutes

\* the routes that read or mutate a protected resource, and the public ones
ProtectedRoutes == {"POST /posts", "GET /users", "GET /posts"}

PublicRoutes == {"GET /assets", "POST /auth/register", "POST /auth/login"}

\* the final handlers of the chains
Handlers == {"static", "register", "login", "createPost", "getUser", "getFeedPosts"}

NoFile == ""

\* a request as it enters its chain; user: the identity the guard attached
ServerRequest(route, e, pw, hdr, file) ==
  [route |-> route, stage |-> 1, email |-> e, pw |-> pw, hdr |-> hdr,
   file |-> file, user |-> 0]

\* the middleware a request is about to run
Middleware(q) ==
  IF q.stage <= Len(Pipeline(q.route)) THEN Pipeline(q.route)[q.stage] ELSE "none"

\* a middleware called next()
CalledNext == Reply(0, "", "", NoToken)

\* the headers a caller may present: none, a bearer credential that is no
\* token, the token it holds, a token signed with another secret
Presentable(held) ==
  {NoAuthorization, Authorization("Bearer", NoToken)}
  \cup {Authorization("Bearer", t) : t \in {held} \ {NoToken}}
  \cup {Authorization("Bearer", Sign(1, e, ForeignSecret)) : e \in {0, MaxTime + 1}}

\* the Session Store of the caller holds one token: the one issued last
Keep(held, tok) == IF tok # NoToken THEN tok ELSE held

\* the requests a caller may send: a registration with or without a profile
\* picture, a login, a post with its picture
NewRequests(held) ==
  {ServerRequest("GET /assets", "", "", NoAuthorization, NoFile)}
  \cup {ServerRequest("POST /auth/register", r[1], r[2], NoAuthorization, r[3]) :
          r \in Registrations}
  \cup {ServerRequest("POST /auth/login", e, pw, NoAuthorization, NoFile) :
          e \in Emails, pw \in Passwords}
  \cup {ServerRequest("POST /posts", "", "", h, "picture.png") :
          h \in Presentable(held)}
  \cup {ServerRequest(r, "", "", h, NoFile) :
          r \in {"GET /users", "GET /posts"}, h \in Presentable(held)}

(* ----------------------------- middlewares ----------------------------- *)
\* what the chain reads and writes besides the request
ServerData == [users |-> users, issued |-> issued, files |-> files, okCount |-> okCount]

\* the outcome of one middleware: the request and the data as it leaves them,
\* and its reply (CalledNext when it passed the request on)
Outcome(q, d, r) == [q |-> q, d |-> d, reply |-> r]

\* verifyToken: attach the identity and call next(), or answer 401
verifyToken(q, d, t) ==
  LET a == authorize(q.hdr, t)
  IN IF a.ok
       THEN Outcome([q EXCEPT !.user = a.sub], d, CalledNext)
       ELSE Outcome(q, d, Reply(401, UnauthenticatedMsg, a.why, NoToken))

\* upload.single("picture"), once the body has arrived: multer writes the file
\* under its original name
upload(q, d) ==
  Outcome(q, [d EXCEPT !.files = IF q.file # NoFile THEN @ \cup {q.file} ELSE @],
          CalledNext)

\* the register controller
registerController(q, d, t, fault) ==
  LET r == register(d.users, q.email, q.pw, t, fault)
  IN Outcome(q, [d EXCEPT !.users = r.store,
                          !.issued = Keep(@, r.reply.tok),
                          !.okCount[q.email] =
                             IF r.reply.status = 200 /\ @ < 2 THEN @ + 1 ELSE @],
             r.reply)

\* the login controller
loginController(q, d, t, fault) ==
  LET r == login(d.users, q.email, q.pw, t, fault)
  IN Outcome(q, [d EXCEPT !.issued = Keep(@, r.tok)], r)

\* express.static, createPost, getUser, getFeedPosts
handler(q, d) == Outcome(q, d, Reply(200, "", "", NoToken))

Apply(mw, q, d, t, fault) ==
  CASE mw = "verifyToken" -> verifyToken(q, d, t)
    [] mw = "upload"      -> upload(q, d)
    [] mw = "register"    -> registerController(q, d, t, fault)
    [] mw = "login"       -> loginController(q, d, t, fault)
    [] OTHER              -> handler(q, d)

\* the chain of q from its stage on, until a middleware replies, the chain
\* ends, or upload.single has to wait; ran: the middlewares run so far
RECURSIVE RunChain(_, _, _, _, _)
RunChain(q, d, t, fault, ran) ==
  LET mw == Middleware(q)
  IN IF mw = "none" \/ (mw = "upload" /\ ran # <<>>)
       THEN [q |-> q, d |-> d, reply |-> CalledNext, ran |-> ran,
             waits |-> mw = "upload"]
       ELSE LET o == Apply(mw, q, d, t, fault)
            IN IF o.reply = CalledNext
                 THEN RunChain([o.q EXCEPT !.stage = @ + 1], o.d, t, fault,
                               Append(ran, mw))
                 ELSE [q |-> o.q, d |-> o.d, reply |-> o.reply,
                       ran |-> Append(ran, mw), waits |-> FALSE]

\* the record lastStep keeps of a step: the request, the middlewares run, the
\* reply (status 0 when none was sent yet), the identity attached to the
\* request, and the User Store as it was before the step
StepOf(q, c) ==
  [route |-> q.route, ran |-> c.ran, status |-> c.reply.status,
   msg |-> c.reply.msg, cause |-> c.reply.cause, tok |-> c.reply.tok,
   email |-> q.email, pw |-> q.pw, hdr |-> q.hdr, user |-> c.q.user,
   store |-> users]

NoStep ==
  [route |-> "", ran |-> <<>>, status |-> 0, msg |-> "", cause |-> "",
   tok |-> NoToken, email |-> "", pw |-> "", hdr |-> NoAuthorization, user |-> 0,
   store |-> {}]

(* ---------------------------- server actions --------------------------- *)
ServerStart ==
  /\ users = {}
  /\ now = 0
  /\ issued = NoToken
  /\ sreqs = EmptyBag
  /\ files = {}
  /\ okCount = [e \in Emails |-> 0]
  /\ lastStep = NoStep

\* the chain of q ran as c: the data it left, the request waiting if it has to
Settle(q, c, rest) ==
  /\ users' = c.d.users
  /\ issued' = c.d.issued
  /\ files' = c.d.files
  /\ okCount' = c.d.okCount
  /\ sreqs' = IF c.waits THEN rest (+) SetToBag({c.q}) ELSE rest
  /\ lastStep' = StepOf(q, c)
  /\ UNCHANGED now
  /\ UNCHANGED cvars

\* a request arrives and runs its chain (the body parsers in front of the
\* routes touch no state)
Call(q, fault) ==
  /\ BagCardinality(sreqs) < MaxServerReqs
  /\ IF Middleware(q) = "upload"
       THEN Settle(q, [q |-> q, d |-> ServerData, reply |-> CalledNext,
                       ran |-> <<>>, waits |-> TRUE], sreqs)
       ELSE Settle(q, RunChain(q, ServerData, now, fault, <<>>), sreqs)

\* the body of a waiting request has arrived: upload.single and what follows
Uploaded(q, fault) ==
  /\ Middleware(q) = "upload"
  /\ Settle(q, RunChain(q, ServerData, now, fault, <<>>), sreqs (-) SetToBag({q}))

Tick ==
  /\ now < MaxTime
  /\ now' = now + 1
  /\ lastStep' = NoStep
  /\ UNCHANGED <<users, issued, sreqs, files, okCount>>
  /\ UNCHANGED cvars

\* the faults a step may meet: the store or the signing key a credential
\* controller needs is unavailable
Faults(q) ==
  IF q.route \in {"POST /auth/register", "POST /auth/login"} THEN BOOLEAN ELSE {FALSE}

ServerNext ==
  \/ \E q \in NewRequests(issued) : \E fault \in Faults(q) : Call(q, fault)
  \/ \E q \in DOMAIN sreqs : \E fault \in Faults(q) : Uploaded(q, fault)
  \/ Tick

(* ------------------- the inline error of the forms -------------------- *)
\* why a credential call failed: the issuer rejected the credentials (4xx), the
\* server met a fault (5xx), or the transport failed (no response)
FailureCauses == {"rejected", "fault", "transport"}

\* data.message of the non-2xx reply to a login / a registration
LoginMessage(cause) ==
  IF cause = "rejected" THEN InvalidCredentialMsg ELSE ServerErrorMsg

RegisterMessage(cause) ==
  IF cause = "rejected" THEN DuplicateIdentifierMsg ELSE ServerErrorMsg

GenericError == "An error occurred. Please try again."

\* a || b
Or(a, b) == IF Truthy(a) THEN a ELSE b

\* what Login.handleSubmit passes to setError when the call failed
LoginError(v, cause) ==
  CASE v = "V1" -> IF cause = "transport" THEN GenericError ELSE LoginMessage(cause)
    [] v = "V2" -> IF cause = "transport" THEN GenericError
                   ELSE Or(LoginMessage(cause), "Login failed")
    [] OTHER    -> "Invalid email or password"

\* what Register.handleSubmit passes to setError when the call failed
RegisterError(v, cause) ==
  CASE v = "V1" -> IF cause = "transport" THEN GenericError ELSE RegisterMessage(cause)
    [] v = "V2" -> IF cause = "transport" THEN GenericError
                   ELSE Or(RegisterMessage(cause), "Registration failed")
    [] OTHER    -> "Registration failed"

\* no setError: the form shows no new message
NoError == ""

\* setError(msg) of the form that sent r: lost when the form was unmounted
SetError(r, msg) == IF r.live THEN msg ELSE NoError

\* mutant: a failed credential call ends the session
FailedSubmit_Clears(v, st) == logout(v, st)

\* the else and catch branches of Login / Register handleSubmit: they call
\* setError and nothing else, so the AuthProvider's state stays
FailedSubmit(v, st) == st

\* mutant: logout tells the server
logoutCalls_Revoke(rs) == Send(rs, Request("logout", NoAuthHeader))

\* the requests in flight after logout ran: it issues none
logoutCalls(rs) == rs

(* ------------------------------- rendering ----------------------------- *)
\* the passive effects a render schedules: the fetch effect of a view that
\* mounted (or, with [token] dependencies, whose token changed), and the mount
\* effect of the part_000 AuthProvider on the first render of a process
MountEffects(v, view, before, tokChanged, fresh) ==
  (IF view = "Dashboard" /\ (before # view \/ (UsesTokenState(v) /\ tokChanged))
     THEN {"fetchItems"} ELSE {})
  \cup (IF view = "TransactionList" /\ (before # view \/ (UsesTokenState(v) /\ tokChanged))
     THEN {"fetchTransactions"} ELSE {})
  \cup (IF fresh /\ ~UsesTokenState(v) THEN {"authInit"} ELSE {})

\* the render React commits after a callback left client state st2, location
\* p2, requests rs2 and a list with items (items2); fresh: the first render
\* of a process
Commit(st2, p2, rs2, items2, fresh) ==
  LET a2 == GateOf(variant, st2.token, st2.isAuth)
      p3 == Resolve(variant, p2, a2)
      v3 == ViewAt(variant, p3, a2)
      v0 == IF fresh THEN "Unmounted" ELSE View
  IN /\ variant' = variant
     /\ localStorage' = st2.ls
     /\ token' = st2.token
     /\ isAuthenticated' = st2.isAuth
     /\ path' = p3
     /\ pendingEffects' = MountEffects(variant, v3, v0, st2.token # token, fresh)
     /\ reqs' = IF v3 # v0 THEN Orphan(rs2) ELSE rs2
     /\ itemsLoaded' = (v3 = v0 /\ items2)
     /\ UNCHANGED svars

\* client state of a process that starts on storage ls
StartState(v, ls) == [token |-> InitialToken(v, ls), isAuth |-> FALSE, ls |-> ls]

NoReqs == EmptyBag

Idle == pendingEffects = {}

(* --------------------------------- Init -------------------------------- *)
Init ==
  /\ variant \in Variants
  /\ localStorage = [k \in StorageKeys |-> JsNull]
  /\ token = InitialToken(variant, localStorage)
  /\ isAuthenticated = FALSE
  /\ path = Resolve(variant, "/", FALSE)
  /\ pendingEffects =
       MountEffects(variant, ViewAt(variant, path, FALSE), "Unmounted", FALSE, TRUE)
  /\ reqs = NoReqs
  /\ itemsLoaded = FALSE
  /\ lastEvent = [kind |-> "start", tok |-> JsNull, auth |-> FALSE,
                  store |-> JsNull, again |-> FALSE, shown |-> ""]
  /\ lastCall = NoCall
  /\ ServerStart

(* -------------------------------- actions ----------------------------- *)
\* the record lastEvent keeps of a callback: its kind, the token field of the
\* response it handled (for a failed credential call, why it failed), the gate
\* and the store as they were before it ran, whether the callback before it
\* was of the same kind, and the message it passed to setError
Event(k, t) ==
  [kind |-> k, tok |-> t, auth |-> Authenticated, store |-> StoreValue,
   again |-> lastEvent.kind = k, shown |-> ""]

StartKinds == {"start", "reload", "protectedOkReload"}

\* the record lastCall keeps of a protected call at the moment it is issued
Issued(k, h) ==
  [kind |-> k, hdr |-> h, store |-> StoreValue, gate |-> Authenticated]

\* React flushes the passive effects of the last render before any other
\* callback runs: the fetch effect of Dashboard / TransactionList / ItemList,
\* then the mount effect of the part_000 AuthProvider.
FlushEffects ==
  /\ pendingEffects # {}
  /\ LET h  == IF "fetchItems" \in pendingEffects
                 THEN fetchItemsHeader(variant, token)
                 ELSE fetchTransactionsHeader(variant, token)
         k  == IF "fetchItems" \in pendingEffects THEN "fetchItems"
                                                  ELSE "fetchTransactions"
         fetches == pendingEffects \cap {"fetchItems", "fetchTransactions"} # {}
         rs2 == IF fetches THEN Send(reqs, Request(k, h))
                           ELSE reqs
         st2 == IF "authInit" \in pendingEffects
                  THEN [ClientState EXCEPT !.isAuth = AuthInitEffect(localStorage)]
                  ELSE ClientState
     IN /\ Commit(st2, path, rs2, itemsLoaded, FALSE)
        /\ lastCall' = IF fetches THEN Issued(k, h) ELSE lastCall
  /\ lastEvent' = Event(IF lastEvent.kind \in StartKinds THEN "startEffects"
                                                          ELSE "effects", JsNull)

\* the user follows a link or changes the location
Navigate(p) ==
  /\ Idle
  /\ Commit(ClientState, p, reqs, itemsLoaded, FALSE)
  /\ lastEvent' = Event("navigate", JsNull)
  /\ UNCHANGED lastCall

\* the client process is reloaded: all in-memory state is lost, the responses
\* of the calls in flight are dropped, localStorage and the location remain
Reload ==
  /\ Idle
  /\ Commit(StartState(variant, localStorage), path, NoReqs, FALSE, TRUE)
  /\ lastEvent' = Event("reload", JsNull)
  /\ UNCHANGED lastCall

\* Login.handleSubmit up to its await: the credentials are posted
SubmitLogin ==
  /\ Idle
  /\ View = "Login"
  /\ HasRoom(reqs)
  /\ Commit(ClientState, path,
            Send(reqs, Request("login", NoAuthHeader)), itemsLoaded, FALSE)
  /\ lastEvent' = Event("submitLogin", JsNull)
  /\ UNCHANGED lastCall

\* Register.handleSubmit up to its await
SubmitRegister ==
  /\ Idle
  /\ View = "Register"
  /\ HasRoom(reqs)
  /\ Commit(ClientState, path,
            Send(reqs, Request("register", NoAuthHeader)), itemsLoaded, FALSE)
  /\ lastEvent' = Event("submitRegister", JsNull)
  /\ UNCHANGED lastCall

\* Login.handleSubmit from its await on: a 2xx response with token field t
LoginSucceeds(r, t) ==
  /\ Idle
  /\ r.kind = "login"
  /\ LET o == LoginOk(variant, ClientState, t)
     IN Commit(o.st, IF o.nav = NoNav THEN path ELSE o.nav,
               Done(reqs, r), itemsLoaded, FALSE)
  /\ lastEvent' = Event("loginOk", t)
  /\ UNCHANGED lastCall

\* Login.handleSubmit from its await on: a non-2xx response or a transport
\* error; only the form's error message is set
LoginFails(r, cause) ==
  /\ Idle
  /\ r.kind = "login"
  /\ Commit(FailedSubmit(variant, ClientState), path, Done(reqs, r), itemsLoaded, FALSE)
  /\ lastEvent' = [Event("loginFail", cause) EXCEPT
                     !.shown = SetError(r, LoginError(variant, cause))]
  /\ UNCHANGED lastCall

\* Register.handleSubmit from its await on: a 2xx response with token field t
RegisterSucceeds(r, t) ==
  /\ Idle
  /\ r.kind = "register"
  /\ LET o == RegisterOk(variant, ClientState, t)
     IN Commit(o.st, IF o.nav = NoNav THEN path ELSE o.nav,
               Done(reqs, r), itemsLoaded, FALSE)
  /\ lastEvent' = Event("registerOk", t)
  /\ UNCHANGED lastCall

\* Register.handleSubmit from its await on: failure
RegisterFails(r, cause) ==
  /\ Idle
  /\ r.kind = "register"
  /\ Commit(FailedSubmit(variant, ClientState), path, Done(reqs, r), itemsLoaded, FALSE)
  /\ lastEvent' = [Event("registerFail", cause) EXCEPT
                     !.shown = SetError(r, RegisterError(variant, cause))]
  /\ UNCHANGED lastCall

\* the logout button (Navbar or Dashboard)
Logout ==
  /\ Idle
  /\ LogoutShown(variant, token, isAuthenticated, View)
  /\ Commit(logout(variant, ClientState), path, logoutCalls(reqs), itemsLoaded, FALSE)
  /\ lastEvent' = Event("logout", JsNull)
  /\ UNCHANGED lastCall

\* AddItem.handleSubmit up to its await (V1 returns early without a price)
SubmitAddItem(price) ==
  /\ Idle
  /\ View = "Dashboard"
  /\ IF variant = "V1" /\ price = 0
       THEN /\ Commit(ClientState, path, reqs, itemsLoaded, FALSE)
            /\ lastEvent' = Event("addItemNoPrice", JsNull)
            /\ UNCHANGED lastCall
       ELSE LET h == addItemHeader(variant, token, localStorage)
            IN /\ Commit(ClientState, path,
                         Send(reqs, Request("addItem", h)), itemsLoaded, FALSE)
               /\ lastCall' = Issued("addItem", h)
               /\ lastEvent' = Event("submitAddItem", JsNull)

\* V2 ItemList.handleDelete up to its await, on an item of the list
HandleDelete ==
  /\ Idle
  /\ variant = "V2"
  /\ View = "Dashboard"
  /\ itemsLoaded
  /\ LET h == handleDeleteHeader(localStorage)
     IN /\ Commit(ClientState, path,
                  Send(reqs, Request("deleteItem", h)), itemsLoaded, FALSE)
        /\ lastCall' = Issued("deleteItem", h)
  /\ lastEvent' = Event("submitDelete", JsNull)

\* whether the list holds an item after the 2xx response of request r:
\* setItems(data) of the fetch, onAddItem(data) of V1/V2 AddItem; a view that
\* was unmounted meanwhile ignores its setters
ItemsAfter(v, r, nonEmpty, items) ==
  CASE r.kind = "fetchItems" /\ r.live -> nonEmpty
    [] r.kind = "addItem" /\ r.live /\ UsesTokenState(v) -> TRUE
    [] OTHER -> items

\* the continuation of a protected call whose response is 2xx
\* (nonEmpty: the list that fetchItems received has an item)
ProtectedSucceeds(r, nonEmpty) ==
  /\ Idle
  /\ r.kind \in ProtectedKinds
  /\ IF r.kind = "addItem" /\ ~UsesTokenState(variant)
       THEN \* part_000 AddItem: window.location.reload()
            /\ Commit(StartState(variant, localStorage), path, NoReqs, FALSE, TRUE)
            /\ lastEvent' = Event("protectedOkReload", JsNull)
       ELSE /\ Commit(ClientState, path, Done(reqs, r),
                     ItemsAfter(variant, r, nonEmpty, itemsLoaded), FALSE)
            /\ lastEvent' = Event("protectedOk", JsNull)
  /\ UNCHANGED lastCall

\* the continuation of a protected call that the Access Guard rejected (401)
ProtectedUnauthenticated(r) ==
  /\ Idle
  /\ r.kind \in ProtectedKinds
  /\ Commit(ClientState, path, Done(reqs, r), itemsLoaded, FALSE)
  /\ lastEvent' = Event("protected401", JsNull)
  /\ UNCHANGED lastCall

\* the continuation of a protected call that failed otherwise
ProtectedFails(r) ==
  /\ Idle
  /\ r.kind \in ProtectedKinds
  /\ Commit(ClientState, path, Done(reqs, r), itemsLoaded, FALSE)
  /\ lastEvent' = Event("protectedErr", JsNull)
  /\ UNCHANGED lastCall

Next ==
  \/ FlushEffects
  \/ \E p \in Paths : Navigate(p)
  \/ Reload
  \/ SubmitLogin
  \/ SubmitRegister
  \/ \E r \in DOMAIN reqs, t \in TokenFields : LoginSucceeds(r, t)
  \/ \E r \in DOMAIN reqs, cause \in FailureCauses : LoginFails(r, cause)
  \/ \E r \in DOMAIN reqs, t \in TokenFields : RegisterSucceeds(r, t)
  \/ \E r \in DOMAIN reqs, cause \in FailureCauses : RegisterFails(r, cause)
  \/ Logout
  \/ \E price \in {0, 1} : SubmitAddItem(price)
  \/ HandleDelete
  \/ \E r \in DOMAIN reqs, nonEmpty \in BOOLEAN : ProtectedSucceeds(r, nonEmpty)
  \/ \E r \in DOMAIN reqs : ProtectedUnauthenticated(r)
  \/ \E r \in DOMAIN reqs : ProtectedFails(r)

Spec == Init /\ [][Next]_vars

\* the server on its own, whichever client calls it
ServerInit == Init /\ variant = "V1"

ServerSpec == ServerInit /\ [][ServerNext]_vars

(* -------------------------------- claims ------------------------------ *)
ProtectedViews == {"Dashboard", "TransactionList"}

\* C1: whenever the client is Authenticated and a protected call returns 401,
\* the client clears the Session Store and the gate reverts to Anonymous.
C1_UnauthenticatedEndsSession ==
  (lastEvent.kind = "protected401" /\ lastEvent.auth)
    => (StoreValue = JsNull /\ ~Authenticated)

\* C2: in every reachable state the gate is Authenticated if and only if the
\* Session Store holds a token.
C2_GateAgreesWithStore == Authenticated <=> StoreValue # JsNull

\* C3: every protected call carries "Authorization: Bearer <token>" whose token
\* is the one the Session Store holds when the call is issued; none is sent
\* without a token.
C3_CallsCarryStoredToken ==
  lastCall.kind # "none"
    => /\ lastCall.hdr.scheme = "Bearer"
       /\ lastCall.store # JsNull
       /\ lastCall.hdr.cred = lastCall.store

\* C4: while the gate is Anonymous no protected view (dashboard, transactions)
\* is rendered; the login view is shown instead.
C4_AnonymousNeverSeesProtectedView == ~Authenticated => View \notin ProtectedViews

\* C5: from the first render of a client process the gate is Authenticated if
\* a token is present in the Session Store and Anonymous otherwise.
C5_InitialGateFromStore ==
  lastEvent.kind \in StartKinds => (Authenticated <=> StoreValue # JsNull)

\* C6: once the callback of a successful login response (one that returned a
\* token) has run, the gate is Authenticated and the Session Store holds the
\* returned token: the gate is never Authenticated for that login without it.
C6_LoginStoresTokenBeforeGate ==
  (lastEvent.kind = "loginOk" /\ lastEvent.tok \in Tokens)
    => (Authenticated /\ StoreValue = lastEvent.tok)

C6_Witness ==
  /\ lastEvent.kind = "loginOk" /\ lastEvent.tok \in Tokens
  /\ ~lastEvent.auth /\ lastEvent.store = JsNull
  /\ Authenticated /\ StoreValue = lastEvent.tok

\* C7: after an explicit logout the Session Store's get() returns absent and
\* the gate is Anonymous; the gate is never Anonymous by logout while the store
\* still holds the token.
C7_LogoutClearsStoreAndGate ==
  lastEvent.kind = "logout" => (StoreValue = JsNull /\ ~Authenticated)

C7_Witness ==
  /\ lastEvent.kind = "logout" /\ lastEvent.auth /\ lastEvent.store \in Tokens
  /\ StoreValue = JsNull /\ ~Authenticated

C9_ReloadKeepsSession ==
  (/\ lastEvent.kind \in StartKinds \cup {"startEffects"}
   /\ "authInit" \notin pendingEffects
   /\ StoreValue \in Tokens)
    => Authenticated

C9_Witness ==
  /\ lastEvent.kind \in {"reload", "startEffects"}
  /\ "authInit" \notin pendingEffects
  /\ StoreValue \in Tokens
  /\ Authenticated

\* C10: when the successful responses of several logins arrive, the last set
\* wins: after each the Session Store holds the token that response returned,
\* the token the gate exposes is the store's current value, and a protected
\* call that sends a token sends the store's value at the moment it is issued,
\* never an earlier one.
C10_LastSetWins ==
  /\ (lastEvent.kind = "loginOk" /\ lastEvent.tok \in Tokens)
       => StoreValue = lastEvent.tok
  /\ (UsesTokenState(variant) /\ Truthy(token)) => token = StoreValue
  /\ (~UsesTokenState(variant) /\ isAuthenticated) => StoreValue # JsNull
  /\ lastCall.hdr.scheme = "Bearer" => lastCall.hdr.cred = lastCall.store

\* two login responses in a row, the second replacing the token of the first,
\* and no login left in flight
C10_Witness ==
  /\ lastEvent.kind = "loginOk" /\ lastEvent.again
  /\ lastEvent.tok \in Tokens /\ lastEvent.store \in Tokens
  /\ lastEvent.store # lastEvent.tok
  /\ \A r \in DOMAIN reqs : r.kind # "login"
  /\ StoreValue = lastEvent.tok


(* ----------------------- claims about the server ----------------------- *)
\* the middleware mw ran in the last step
Ran(mw) == \E i \in DOMAIN lastStep.ran : lastStep.ran[i] = mw

HandlerRan == \E i \in DOMAIN lastStep.ran : lastStep.ran[i] \in Handlers

\* in the chain of route r the guard stands before everything else
GuardedBeforeHandler(r) ==
  /\ Len(Pipeline(r)) > 0
  /\ Pipeline(r)[1] = "verifyToken"

GuardFree(r) == \A i \in DOMAIN Pipeline(r) : Pipeline(r)[i] # "verifyToken"

OwnTokenJudged ==
  /\ Ran("verifyToken")
  /\ ~BadHeader(lastStep.hdr)
  /\ lastStep.hdr.cred.key = ServerSecret

\* C12: a token of the issuer is accepted at every time strictly before its
\* expiry and rejected as Unauthenticated (401) at its expiry instant and
\* after it.
C12_ExpiryBoundary ==
  OwnTokenJudged =>
    /\ now < lastStep.hdr.cred.exp =>
         lastStep.status # 401 /\ lastStep.user = lastStep.hdr.cred.sub
    /\ now >= lastStep.hdr.cred.exp =>
         /\ lastStep.status = 401
         /\ lastStep.msg = UnauthenticatedMsg
         /\ lastStep.ran = <<"verifyToken">>

\* an issued token was rejected at its expiry instant
C12_Witness ==
  /\ OwnTokenJudged
  /\ now = lastStep.hdr.cred.exp
  /\ lastStep.status = 401

\* C13: a well-formed token signed with another secret is rejected as
\* Unauthenticated whatever its subject and expiry, and the rejection is that
\* of the signature check also when the expiry has passed: the signature is
\* verified before the payload is read.
C13_ForeignSignatureFails ==
  (Ran("verifyToken") /\ ~BadHeader(lastStep.hdr)
     /\ lastStep.hdr.cred.key # ServerSecret) =>
    /\ lastStep.status = 401
    /\ lastStep.cause = "signature"
    /\ lastStep.user = 0
    /\ lastStep.ran = <<"verifyToken">>

\* a foreign token whose expiry has passed was rejected
C13_Witness ==
  /\ Ran("verifyToken")
  /\ lastStep.hdr.cred.key = ForeignSecret
  /\ now >= lastStep.hdr.cred.exp
  /\ lastStep.status = 401

\* C14: a call to a protected route without an Authorization header, or with
\* one no bearer token can be extracted from, is answered 401 by the guard and
\* nothing else of its chain runs: neither the upload nor the handler.
C14_MissingHeaderRejected ==
  /\ (lastStep.route \in ProtectedRoutes /\ BadHeader(lastStep.hdr)) =>
       /\ lastStep.status = 401
       /\ lastStep.ran = <<"verifyToken">>
  /\ \A q \in DOMAIN sreqs : q.route \in ProtectedRoutes => ~BadHeader(q.hdr)

\* post creation was called without a header
C14_Witness ==
  /\ lastStep.route = "POST /posts"
  /\ lastStep.hdr = NoAuthorization
  /\ lastStep.status = 401

\* the login controller answered without meeting a fault
LoginAnswered == Ran("login") /\ lastStep.cause # "fault"

\* C15: a login with an identifier and the password it was registered with
\* succeeds with a token whose subject is the identifier of that user.
C15_RegisteredPairLogsIn ==
  LoginAnswered =>
    \A u \in users :
      (u.email = lastStep.email /\ u.hash = Hash(lastStep.pw, u.salt)) =>
        /\ lastStep.status = 200
        /\ lastStep.tok.key = ServerSecret
        /\ lastStep.tok.sub = u.id

\* the user registered second logged in
C15_Witness ==
  /\ LoginAnswered
  /\ lastStep.status = 200
  /\ lastStep.tok.sub = 2

\* the register controller answered a request for an identifier the store held
DuplicateAttempt ==
  /\ Ran("register")
  /\ lastStep.cause # "fault"
  /\ findByIdentifier(lastStep.store, lastStep.email) # {}

\* C16: a registration whose identifier is already in the User Store fails with
\* DuplicateIdentifier (400, no token) and leaves the store as it was.
C16_DuplicateRejected ==
  DuplicateAttempt =>
    /\ lastStep.status = 400
    /\ lastStep.msg = DuplicateIdentifierMsg
    /\ lastStep.tok = NoToken
    /\ users = lastStep.store

C16_Witness == DuplicateAttempt /\ lastStep.status = 400

\* C17: registrations for one identifier that are in flight together end with
\* at most one success, and no two records of the User Store share an
\* identifier or a login key.
C17_AtMostOneRegistration ==
  /\ \A e \in Emails : okCount[e] <= 1
  /\ \A u, w \in users : (u.email = w.email \/ u.id = w.id) => u = w
  /\ (Ran("register") /\ lastStep.status = 200) =>
       /\ findByIdentifier(lastStep.store, lastStep.email) = {}
       /\ Cardinality(findByIdentifier(users, lastStep.email)) = 1

\* one of two registrations for the same identifier succeeded while the other
\* was still inside its chain
C17_Witness ==
  /\ Ran("register")
  /\ lastStep.status = 200
  /\ \E q \in DOMAIN sreqs :
       q.route = "POST /auth/register" /\ q.email = lastStep.email


\* the login controller refused the credentials
LoginRefused == LoginAnswered /\ lastStep.status # 200

\* C18: a failed login is answered with the same status and the same message
\* whether the identifier is unknown or the password is wrong.
C18_LoginFailuresAlike ==
  LoginRefused =>
    /\ lastStep.cause \in {"noSuchUser", "wrongPassword"}
    /\ lastStep.status = 401
    /\ lastStep.msg = InvalidCredentialMsg
    /\ lastStep.tok = NoToken

\* a login for a registered identifier failed on the password
C18_Witness ==
  /\ LoginRefused
  /\ findByIdentifier(users, lastStep.email) # {}
  /\ lastStep.cause = "wrongPassword"

(* ------------------ claims about the forms and logout ------------------ *)
UnexpectedFaults == {"fault", "transport"}

\* C19: when a credential call fails on an unexpected fault (a server error,
\* a transport failure), the message the form shows differs from the one it
\* shows when the issuer rejects the credentials (InvalidCredential for
\* login, DuplicateIdentifier for registration).
C19_FaultNotDisguised ==
  /\ (lastEvent.kind = "loginFail" /\ lastEvent.tok \in UnexpectedFaults
        /\ lastEvent.shown # NoError) =>
       lastEvent.shown # LoginError(variant, "rejected")
  /\ (lastEvent.kind = "registerFail" /\ lastEvent.tok \in UnexpectedFaults
        /\ lastEvent.shown # NoError) =>
       lastEvent.shown # RegisterError(variant, "rejected")

RanIn(s, mw) == \E i \in DOMAIN s.ran : s.ran[i] = mw

\* C21: issuing a token writes no server-side state: a step that ran the
\* login controller leaves the User Store and the stored files as they were,
\* and a step in which a registration succeeded adds exactly one User record
\* and changes nothing else on the server.
C21_IssuingWritesNothingElse ==
  [][/\ RanIn(lastStep', "login") => (users' = users /\ files' = files)
     /\ (RanIn(lastStep', "register") /\ lastStep'.status = 200) =>
          /\ users \subseteq users'
          /\ Cardinality(users' \ users) = 1
          /\ files' = files]_vars

(* -------------------- claims about the Session Store ------------------- *)
\* what a key of the persistence layer can hold: nothing, a token, or the
\* string a missing token field was converted to
StoreValues == Tokens \cup {JsNull, Str(JsUndefined)}

\* C22: Session Store round trip: from any store state, set(t) followed by
\* get() returns exactly t for every token t, and clear() followed by get()
\* returns absent; so it is after the login response that carried t and after
\* a logout.
C22_StoreRoundTrip ==
  /\ \A t \in Tokens :
       SessionGet(variant, SessionSet(variant, ClientState, t)) = t
  /\ SessionGet(variant, SessionClear(variant, ClientState)) = JsNull
  /\ (lastEvent.kind = "loginOk" /\ lastEvent.tok \in Tokens) =>
       SessionGet(variant, ClientState) = lastEvent.tok
  /\ lastEvent.kind = "logout" => SessionGet(variant, ClientState) = JsNull

\* a token was set on a store that held the placeholder of an earlier response
C22_Witness ==
  /\ lastEvent.kind = "loginOk"
  /\ lastEvent.tok \in Tokens
  /\ lastEvent.store = Str(JsUndefined)
  /\ StoreValue = lastEvent.tok

\* C23: set and clear are idempotent and immediately observable: set(t)
\* applied twice leaves the client state set(t) leaves once, clear() applied
\* twice, or on an empty store, leaves the state clear() leaves once, and the
\* gate and get() of the same process show the effect at once.
C23_SetClearIdempotent ==
  LET st == ClientState
      cleared == SessionClear(variant, st)
  IN /\ \A t \in Tokens :
          LET once == SessionSet(variant, st, t)
          IN /\ SessionSet(variant, once, t) = once
             /\ SessionGet(variant, once) = t
             /\ GateOf(variant, once.token, once.isAuth)
     /\ SessionClear(variant, cleared) = cleared
     /\ SessionGet(variant, st) = JsNull => cleared.ls = st.ls
     /\ SessionGet(variant, cleared) = JsNull
     /\ ~GateOf(variant, cleared.token, cleared.isAuth)
     /\ (lastEvent.kind = "loginOk" /\ lastEvent.again
           /\ lastEvent.tok \in Tokens /\ lastEvent.store = lastEvent.tok) =>
          (StoreValue = lastEvent.store /\ Authenticated)

\* the same token was set twice in a row
C23_Witness ==
  /\ lastEvent.kind = "loginOk" /\ lastEvent.again
  /\ lastEvent.tok \in Tokens
  /\ lastEvent.store = lastEvent.tok
  /\ lastEvent.auth
  /\ StoreValue = lastEvent.tok

\* C24: the Session Store holds at most one token: its key holds a single
\* value, set(t2) after set(t1) leaves exactly the state set(t2) leaves, with
\* get() = t2, and the token the client keeps in memory is never another one
\* than the stored one.
C24_AtMostOneToken ==
  /\ \A k \in StorageKeys : localStorage[k] \in StoreValues
  /\ \A k \in StorageKeys \ {TokenKey(variant)} : localStorage[k] = JsNull
  /\ \A t1, t2 \in Tokens :
       LET both == SessionSet(variant, SessionSet(variant, ClientState, t1), t2)
       IN /\ both = SessionSet(variant, ClientState, t2)
          /\ SessionGet(variant, both) = t2
          /\ both.token \in {t2, JsNull}
  /\ token \in Tokens => token = StoreValue
  /\ (lastEvent.kind = "loginOk" /\ lastEvent.tok \in Tokens
        /\ lastEvent.store \in Tokens) => StoreValue = lastEvent.tok

\* a token was set on a store that held the other token
C24_Witness ==
  /\ lastEvent.kind = "loginOk"
  /\ lastEvent.store = "t1"
  /\ lastEvent.tok = "t2"
  /\ StoreValue = "t2"
  /\ token \in {"t2", JsNull}

(* ------------------ claims about credential submissions ---------------- *)
FailKinds == {"loginFail", "registerFail"}

\* C25: a failed login or registration (a non-2xx response or a transport
\* error) leaves the Session Store and the gate exactly as they were before
\* its callback ran; what the callback changes is the form's error message.
C25_FailureLeavesSession ==
  lastEvent.kind \in FailKinds =>
    /\ StoreValue = lastEvent.store
    /\ Authenticated = lastEvent.auth
    /\ lastEvent.tok \in FailureCauses
    /\ lastEvent.shown \in
         {NoError, LoginError(variant, lastEvent.tok),
          RegisterError(variant, lastEvent.tok)}

\* a login failed while the client held a session, and the form showed why
C25_Witness ==
  /\ lastEvent.kind = "loginFail"
  /\ lastEvent.store \in Tokens /\ lastEvent.auth
  /\ lastEvent.shown = LoginError(variant, lastEvent.tok)
  /\ StoreValue = lastEvent.store /\ Authenticated

\* C26: after a logout the Session Store stays empty and the gate Anonymous
\* until a submission started after the logout succeeds: when the callback
\* that runs next after a logout handles the response of a credential call
\* (one that was in flight when logout ran), it leaves the store empty and
\* the gate Anonymous.
C26_LogoutOutlastsLateResponse ==
  [][(lastEvent.kind = "logout" /\ lastEvent'.kind \in {"loginOk", "registerOk"}) =>
       (StoreValue' = JsNull /\ ~Authenticated')]_vars

\* C27: a 2xx login response whose body carries no token, handled while the
\* Session Store is empty and the gate Anonymous, leaves the store empty and
\* the gate Anonymous: no placeholder is stored that a reload would read back
\* as a token.
C27_NoPlaceholderToken ==
  (/\ lastEvent.kind = "loginOk"
   /\ lastEvent.tok = JsUndefined
   /\ lastEvent.store = JsNull
   /\ ~lastEvent.auth)
    => (StoreValue = JsNull /\ ~Authenticated)

(* ----------------------- claims about POST /posts ---------------------- *)
\* in chain c every occurrence of middleware a stands before every b
Before(c, a, b) ==
  \A i, j \in DOMAIN c : (c[i] = a /\ c[j] = b) => i < j

\* C28: on POST /posts the chain is the Access Guard, then the file upload,
\* then createPost; the step in which the guard rejects a request runs
\* nothing but the guard and writes no file to storage.
C28_GuardBeforeUpload ==
  [][/\ Before(Pipeline("POST /posts"), "verifyToken", "upload")
     /\ Before(Pipeline("POST /posts"), "upload", "createPost")
     /\ (lastStep'.route = "POST /posts" /\ lastStep'.status = 401) =>
          /\ lastStep'.ran = <<"verifyToken">>
          /\ files' = files
          /\ \A q \in DOMAIN sreqs' : q.route = "POST /posts" => q.user # 0]_vars

\* the guard rejected a post that carried a picture; no file of a post is stored
C28_Witness ==
  /\ lastStep.route = "POST /posts"
  /\ lastStep.status = 401
  /\ lastStep.ran = <<"verifyToken">>
  /\ "picture.png" \notin files

=============================================================================
